---- MODULE Spec2Model ----
(***************************************************************************)
(* Ingestion pipeline of the OSM/DuckDB MCP server:                        *)
(*   osmFetchTool -> buildOverpassQuery -> runOverpass (throttle, retry)   *)
(*                -> normalizeElements -> insertFeatures (DuckDB cache).   *)
(*                                                                         *)
(* JavaScript runs one task at a time, so an action is the code executed   *)
(* between two suspension points (timer, network reply, storage callback). *)
(* Time is the millisecond clock Date.now(); it advances in Tick steps.    *)
(***************************************************************************)
EXTENDS Integers, Sequences, FiniteSets, TLC

\* ---------------------------------------------------------------- bounds
MaxStarts == 2      \* ingestion calls begun in one behaviour
MaxConcStarts == 3  \* the same, for calls in flight together
MaxBuildStarts == 2 \* the same, for requests of every shape
MaxTicks == 34      \* clock steps of 500 ms, one call at a time
MaxConcTicks == 6   \* clock steps of 500 ms, concurrent calls
MaxCoarseTicks == 3 \* clock steps of 2000 ms, whole pipeline
MaxLatencyTicks == 2 \* clock steps a request may stay unanswered
MaxElems == 2       \* elements in one reply of the geodata service
MaxBatch == 2       \* features in one batch given to insertFeatures
MaxTags == 2        \* tag filters in one request
MaxVertices == 4    \* vertices of a way
MaxMembers == 2     \* members of a relation
MaxFailTicks == 6   \* clock steps of 2000 ms, calls that exhaust their attempts

\* ------------------------------------------------------- program constants
MIN_REQUEST_INTERVAL_MS == 2000

\* An optional value (undefined, null or a value) is <<>> or <<value>>.
None == <<>>
Some(v) == <<v>>
IsSome(o) == o # <<>>
Val(o) == o[1]

\* the calls that may be in flight together
Calls == {1, 2}

Min(a, b) == IF a < b THEN a ELSE b
Max(a, b) == IF a > b THEN a ELSE b

\* ------------------------------------------------------ endpoint list
DEFAULT_URLS == <<"d1", "d2", "d3", "d4">>

RECURSIVE Dedup(_, _)
\* Array.from(new Set(all)): first occurrences, order kept
Dedup(s, seen) ==
  IF s = <<>> THEN <<>>
  ELSE IF Head(s) \in seen THEN Dedup(Tail(s), seen)
       ELSE <<Head(s)>> \o Dedup(Tail(s), seen \cup {Head(s)})

RECURSIVE FilterNonEmpty(_)
\* .filter(Boolean) on the trimmed pieces of the comma-separated value
FilterNonEmpty(s) ==
  IF s = <<>> THEN <<>>
  ELSE IF Head(s) = "" THEN FilterNonEmpty(Tail(s))
       ELSE <<Head(s)>> \o FilterNonEmpty(Tail(s))

\* An environment: the two variables, each unset (None) or set to the
\* sequence of the trimmed pieces of its comma-separated value (the empty
\* string is the single piece "").
EnvChoices ==
  { [URLS |-> None, URL |-> None],
    [URLS |-> Some(<<"e1">>), URL |-> Some(<<"e2">>)],
    [URLS |-> None, URL |-> Some(<<"d2", "", "d2">>)],
    [URLS |-> Some(<<"">>), URL |-> Some(<<"e1">>)] }

getOverpassApiUrls(e) ==
  LET urlsEnv == IF IsSome(e.URLS) THEN e.URLS ELSE e.URL
      fromEnv == IF IsSome(urlsEnv) /\ Val(urlsEnv) # <<"">>
                 THEN FilterNonEmpty(Val(urlsEnv)) ELSE <<>>
  IN Dedup(fromEnv \o DEFAULT_URLS, {})

\* ------------------------------------------------------ retry policy
transientStatuses == {408, 425, 429, 500, 502, 503, 504, 520}

\* only 200 counts as success
ResponseOk_only200(status) == status = 200

\* response.ok
ResponseOk(status) == status >= 200 /\ status <= 299

\* the bound of the loop, one too many
maxAttempts_oneMore(urls) == Max(2, Len(urls)) + 1

maxAttempts(urls) == Max(2, Len(urls))

attemptUrl(urls, attempt) == urls[(attempt % Len(urls)) + 1]

backoffMs(attempt) == Min(8000, 500 * 2^attempt)

\* Date.now() when the process starts: with lastRequestTime = 0 every
\* value from the minimum interval on behaves like the real clock.
Epoch == MIN_REQUEST_INTERVAL_MS

\* steps of the clock: the shortest wait of the program (the first
\* backoff), and the minimum interval
TickMs == backoffMs(0)
CoarseTickMs == MIN_REQUEST_INTERVAL_MS

\* ------------------------------------------------------ query builder
\* one rendered tag filter: ["k"], ["k"~"v"] or ["k"="v"]
renderTag(t) ==
  IF ~IsSome(t.value) THEN <<"has", t.key>>
  ELSE IF t.regex = Some(TRUE) THEN <<"~", t.key, Val(t.value)>>
       ELSE <<"=", t.key, Val(t.value)>>

\* options.center && options.radius_m: an object is truthy, a number is
\* truthy unless it is 0
areaFilterOf(options) ==
  IF IsSome(options.center) /\ IsSome(options.radius_m) /\ Val(options.radius_m) # 0
  THEN <<"around", Val(options.radius_m), Val(options.center)>>
  ELSE IF IsSome(options.bbox)
       THEN <<"bbox", Val(options.bbox)>>
       ELSE <<>>

\* The query text, as its parts: timeout, one clause per element kind
\* (kind, tag filters, area filter) and the output directive.
buildOverpassQuery(options) ==
  LET timeout == IF IsSome(options.timeout) THEN Val(options.timeout) ELSE 30
      output == IF IsSome(options.output) THEN Val(options.output) ELSE "center"
      elements == IF IsSome(options.elements) THEN Val(options.elements) ELSE <<"nwr">>
      areaFilter == areaFilterOf(options)
      tagFilters == [i \in 1..Len(options.tags) |-> renderTag(options.tags[i])]
  IN [timeout |-> timeout,
      clauses |-> [i \in 1..Len(elements) |->
                     [el |-> elements[i], tags |-> tagFilters, area |-> areaFilter]],
      out |-> IF output = "geom" THEN "out geom;" ELSE "out center;"]

MissingTagsError == "Either 'overpass_ql' or 'tags' must be provided"

\* if (input.overpass_ql): a string is truthy unless it is empty
hasRawQuery(input) == IsSome(input.overpass_ql) /\ Val(input.overpass_ql) # ""

\* only the absent list is caught, the empty one passes
missingTags_absentOnly(input) == ~IsSome(input.tags)

\* !input.tags || input.tags.length === 0
missingTags(input) == ~IsSome(input.tags) \/ Len(Val(input.tags)) = 0

\* osmFetchTool, lines 85-110: the query used (<<"raw", text>> or
\* <<"built", parts>>), or <<"error", message>> for the error thrown
queryOf(input) ==
  IF hasRawQuery(input) THEN <<"raw", Val(input.overpass_ql)>>
  ELSE IF missingTags(input) THEN <<"error", MissingTagsError>>
       ELSE <<"built",
              buildOverpassQuery(
                [center |-> input.center, radius_m |-> input.radius_m,
                 bbox |-> input.bbox, elements |-> input.elements,
                 tags |-> [i \in 1..Len(Val(input.tags)) |->
                             [key |-> Val(input.tags)[i].key,
                              value |-> Val(input.tags)[i].value,
                              regex |-> Val(input.tags)[i].regex]],
                 output |-> input.output, timeout |-> None])>>

\* ------------------------------------------------------ normalizer
\* A number is <<n, d>>, the fraction n/d in lowest terms with d >= 1; the
\* value of a coordinate that holds no number (a missing or null property)
\* is NotNumber. Its text in a template literal is no numeral.
Num(n) == <<n, 1>>
NotNumber == <<0, 0>>
IsNumber(v) == v[2] >= 1

RECURSIVE Gcd(_, _)
Gcd(a, b) == IF b = 0 THEN a ELSE Gcd(b, a % b)

Abs(a) == IF a < 0 THEN -a ELSE a

Reduce(n, d) == LET g == Gcd(Abs(n), d) IN <<n \div g, d \div g>>

\* a + b and a / k of JavaScript numbers; no number in, no number out
Plus(a, b) ==
  IF IsNumber(a) /\ IsNumber(b) THEN Reduce(a[1] * b[2] + b[1] * a[2], a[2] * b[2])
  ELSE NotNumber

DividedBy(a, k) == IF IsNumber(a) THEN Reduce(a[1], a[2] * k) ELSE NotNumber

RECURSIVE SumLat(_)
\* points.reduce((sum, p) => sum + p.lat, 0)
SumLat(points) ==
  IF points = <<>> THEN Num(0)
  ELSE Plus(SumLat(SubSeq(points, 1, Len(points) - 1)), points[Len(points)].lat)

RECURSIVE SumLon(_)
SumLon(points) ==
  IF points = <<>> THEN Num(0)
  ELSE Plus(SumLon(SubSeq(points, 1, Len(points) - 1)), points[Len(points)].lon)

\* WKT text as its parts: the shape keyword and the coordinate pairs in
\* the order they are written, each pair <<first number, second number>>.
Wkt(shape, coords) == [shape |-> shape, coords |-> coords]

PointWkt(lon, lat) == Wkt("POINT", <<<<lon, lat>>>>)

coordsOf(geometry) == [i \in 1..Len(geometry) |-> <<geometry[i].lon, geometry[i].lat>>]

\* a polygon for every closed sequence, whatever its length
geometryToWkt_closedAnyLength(geometry) ==
  IF Len(geometry) = 0 THEN None
  ELSE IF Len(geometry) = 1 THEN Some(PointWkt(geometry[1].lon, geometry[1].lat))
  ELSE IF geometry[1] = geometry[Len(geometry)]
       THEN Some(Wkt("POLYGON", coordsOf(geometry)))
       ELSE Some(Wkt("LINESTRING", coordsOf(geometry)))

\* the WKT of a vertex sequence, None for null
geometryToWkt(geometry) ==
  IF Len(geometry) = 0 THEN None
  ELSE IF Len(geometry) = 1 THEN Some(PointWkt(geometry[1].lon, geometry[1].lat))
  ELSE LET first == geometry[1]
           last == geometry[Len(geometry)]
           isClosed == first.lat = last.lat /\ first.lon = last.lon
       IN IF isClosed /\ Len(geometry) >= 4
          THEN Some(Wkt("POLYGON", coordsOf(geometry)))
          ELSE Some(Wkt("LINESTRING", coordsOf(geometry)))

\* only the first member that carries geometry contributes its vertices
RECURSIVE memberPoints_firstOnly(_)
memberPoints_firstOnly(members) ==
  IF members = <<>> THEN <<>>
  ELSE IF IsSome(Head(members).geometry) /\ Len(Val(Head(members).geometry)) > 0
       THEN Val(Head(members).geometry)
       ELSE memberPoints_firstOnly(Tail(members))

RECURSIVE memberPoints(_)
memberPoints(members) ==
  IF members = <<>> THEN <<>>
  ELSE (IF IsSome(Head(members).geometry) THEN Val(Head(members).geometry) ELSE <<>>)
       \o memberPoints(Tail(members))

\* JSON.stringify(el.tags || {}): the text between the braces is the tag
\* content, a sequence of characters
stringifyTags(tags) ==
  IF IsSome(tags) THEN <<"{">> \o Val(tags) \o <<"}">> ELSE <<"{", "}">>

\* geom_wkt of normalizeElement, None while it is null
geomWktOf(el) ==
  IF el.type = "node" THEN
    IF IsSome(el.lat) /\ IsSome(el.lon) THEN Some(PointWkt(Val(el.lon), Val(el.lat)))
    ELSE None
  ELSE IF el.type = "way" THEN
    IF IsSome(el.geometry) /\ Len(Val(el.geometry)) > 0 THEN geometryToWkt(Val(el.geometry))
    ELSE IF IsSome(el.center) THEN Some(PointWkt(Val(el.center).lon, Val(el.center).lat))
    ELSE None
  ELSE IF el.type = "relation" THEN
    IF IsSome(el.center) THEN Some(PointWkt(Val(el.center).lon, Val(el.center).lat))
    ELSE IF IsSome(el.members) THEN
      LET points == memberPoints(Val(el.members))
      IN IF Len(points) > 0
         THEN Some(PointWkt(DividedBy(SumLon(points), Len(points)),
                            DividedBy(SumLat(points), Len(points))))
         ELSE None
    ELSE None
  ELSE None

\* the feature of an element, None when no geometry can be derived
normalizeElement(el) ==
  LET geom_wkt == geomWktOf(el)
  IN IF ~IsSome(geom_wkt) THEN None
     ELSE Some([osm_type |-> el.type, osm_id |-> el.id,
                tags_json |-> stringifyTags(el.tags), geom_wkt |-> Val(geom_wkt)])

RECURSIVE normalizeElements(_)
normalizeElements(elements) ==
  IF elements = <<>> THEN <<>>
  ELSE normalizeElement(Head(elements)) \o normalizeElements(Tail(elements))

\* ------------------------------------------------------ storage statement
RECURSIVE escapeQuotes(_)
\* s.replace(/'/g, "''")
escapeQuotes(s) ==
  IF s = <<>> THEN <<>>
  ELSE (IF Head(s) = "'" THEN <<"'", "'">> ELSE <<Head(s)>>) \o escapeQuotes(Tail(s))

RECURSIVE literalValue(_)
\* The value the engine reads from the body of a quoted SQL literal: ''
\* is one quote; a single quote ends the literal early and the statement
\* does not parse (None).
literalValue(body) ==
  IF body = <<>> THEN Some(<<>>)
  ELSE IF Head(body) # "'" THEN
         LET rest == literalValue(Tail(body))
         IN IF IsSome(rest) THEN Some(<<Head(body)>> \o Val(rest)) ELSE None
  ELSE IF Len(body) >= 2 /\ body[2] = "'" THEN
         LET rest == literalValue(Tail(Tail(body)))
         IN IF IsSome(rest) THEN Some(<<"'">> \o Val(rest)) ELSE None
  ELSE None

\* ST_GeomFromText: the native geometry of a WKT text, None when the text
\* is no geometry: a coordinate that is no numeral, a point count the
\* shape does not allow, a ring that is not closed, an unknown keyword.
ST_GeomFromText(wkt) ==
  LET n == Len(wkt.coords)
      numeric == \A i \in 1..n : IsNumber(wkt.coords[i][1]) /\ IsNumber(wkt.coords[i][2])
      shaped == \/ wkt.shape = "POINT" /\ n = 1
                \/ wkt.shape = "LINESTRING" /\ n >= 2
                \/ wkt.shape = "POLYGON" /\ n >= 4 /\ wkt.coords[1] = wkt.coords[n]
  IN IF numeric /\ shaped THEN Some(<<"GEOMETRY", wkt>>) ELSE None

\* !feature.geom_wkt || typeof feature.geom_wkt !== 'string' ||
\* feature.geom_wkt.trim() === '': the text is empty or blank
invalidGeomWkt(feature) == feature.geom_wkt.shape \in {"", " "}

\* the statement escapes the tags twice: the row holds doubled quotes
statementRow_storesEscaped(feature) ==
  LET escapedTags == escapeQuotes(escapeQuotes(feature.tags_json))
      tags == literalValue(escapedTags)
      geom == ST_GeomFromText(feature.geom_wkt)
  IN IF IsSome(tags) /\ IsSome(geom)
     THEN Some([osm_type |-> feature.osm_type, osm_id |-> feature.osm_id,
                tags_json |-> Val(tags), geom_wkt |-> feature.geom_wkt,
                geom |-> Val(geom)])
     ELSE None

\* The row the statement of insertFeatures asks the engine to write, None
\* when the engine rejects the statement: a literal that does not parse or
\* a text that is no geometry.
statementRow(feature) ==
  LET escapedTags == escapeQuotes(feature.tags_json)
      tags == literalValue(escapedTags)
      geom == ST_GeomFromText(feature.geom_wkt)
  IN IF IsSome(tags) /\ IsSome(geom)
     THEN Some([osm_type |-> feature.osm_type, osm_id |-> feature.osm_id,
                tags_json |-> Val(tags), geom_wkt |-> feature.geom_wkt,
                geom |-> Val(geom)])
     ELSE None

SameKey(r, row) == r.osm_type = row.osm_type /\ r.osm_id = row.osm_id

\* a plain insert into a table without the key constraint
insertOrReplace_keepsBoth(rows, row) == rows \cup {row}

\* the statement empties the table before it writes the row
insertOrReplace_dropsOthers(rows, row) == {row}

\* the statement updates the tags of an existing row and keeps its geometry
insertOrReplace_mergesColumns(rows, row) ==
  {r \in rows : ~SameKey(r, row)} \cup
  (IF \E r \in rows : SameKey(r, row)
   THEN {[row EXCEPT !.geom_wkt = r.geom_wkt, !.geom = r.geom] : r \in {x \in rows : SameKey(x, row)}}
   ELSE {row})

\* the statement deletes the row of an existing key and writes none
insertOrReplace_deletesExisting(rows, row) ==
  IF \E r \in rows : SameKey(r, row)
  THEN {r \in rows : ~SameKey(r, row)}
  ELSE rows \cup {row}

\* INSERT OR REPLACE under PRIMARY KEY (osm_type, osm_id)
insertOrReplace(rows, row) == {r \in rows : ~SameKey(r, row)} \cup {row}

\* the failed statement has removed the row of its key
failedStatement_deletesOld(rows, feature) ==
  {r \in rows : ~(r.osm_type = feature.osm_type /\ r.osm_id = feature.osm_id)}

\* conn.run calls back with err: the statement is undone as a whole, the
\* table is as it was
failedStatement(rows, feature) == rows

\* ------------------------------------------------------------------ state
VARIABLES
  now,              \* Date.now()
  lastRequestTime,  \* overpass.ts: let lastRequestTime
  env,              \* process.env: OVERPASS_API_URLS, OVERPASS_API_URL
  table,            \* rows of osm_features
  started,          \* calls begun so far
  dispatches,       \* the last two fetch() calls to the service: time, attempt
  frame             \* per call: position and locals of the running call

vars == <<now, lastRequestTime, env, table, started, dispatches, frame>>

IdleFrame ==
  [pc |-> "idle", caller |-> "", input |-> None, query |-> <<>>, attempt |-> 0,
   wakeAt |-> 0, sentAt |-> 0, sent |-> <<>>, received |-> None, lastError |-> None, response |-> None, features |-> <<>>,
   idx |-> 0, inserted |-> 0, log |-> <<>>, result |-> <<"none">>]

Urls == getOverpassApiUrls(env)

InitWith(envs) ==
  /\ now = Epoch
  /\ lastRequestTime = 0
  /\ env \in envs
  /\ table = {}
  /\ started = 0
  /\ dispatches = <<>>
  /\ frame = [p \in Calls |-> IdleFrame]

\* ------------------------------------------------------ insertFeatures
RECURSIVE firstToWrite(_, _)
\* the loop of insertFeatures from position i: the first feature that is
\* not skipped by the geom_wkt test, Len + 1 when there is none
firstToWrite(features, i) ==
  IF i > Len(features) THEN i
  ELSE IF invalidGeomWkt(features[i]) THEN firstToWrite(features, i + 1)
       ELSE i

\* the tool reports the features given to insertFeatures as inserted
returnValue_countsFeatures(f, insertedCount) ==
  IF f.caller = "osmFetchTool"
  THEN <<"return", [success |-> TRUE, fetched |-> Len(Val(f.response)),
                    normalized |-> Len(f.features), inserted |-> Len(f.features),
                    query_used |-> f.query]>>
  ELSE <<"return", insertedCount>>

\* the tool raises after the writes when a feature was not inserted
returnValue_raisesOnPartial(f, insertedCount) ==
  IF f.caller = "osmFetchTool" /\ insertedCount < Len(f.features)
  THEN <<"raise", "not every feature was inserted">>
  ELSE IF f.caller = "osmFetchTool"
  THEN <<"return", [success |-> TRUE, fetched |-> Len(Val(f.response)),
                    normalized |-> Len(f.features), inserted |-> insertedCount,
                    query_used |-> f.query]>>
  ELSE <<"return", insertedCount>>

\* return value of the running call once insertFeatures has returned
returnValue(f, insertedCount) ==
  IF f.caller = "osmFetchTool"
  THEN <<"return", [success |-> TRUE, fetched |-> Len(Val(f.response)),
                    normalized |-> Len(f.features), inserted |-> insertedCount,
                    query_used |-> f.query]>>
  ELSE <<"return", insertedCount>>

\* the loop returns at the first feature it skips (return for continue)
continueInsert_returnsOnSkip(f, i, insertedCount, logSoFar) ==
  IF i <= Len(f.features) /\ invalidGeomWkt(f.features[i])
  THEN [f EXCEPT !.pc = "returned", !.idx = i, !.inserted = insertedCount,
                 !.log = Append(logSoFar, "skipped"),
                 !.result = returnValue(f, insertedCount)]
  ELSE IF i > Len(f.features)
  THEN [f EXCEPT !.pc = "returned", !.idx = i, !.inserted = insertedCount,
                 !.log = logSoFar, !.result = returnValue(f, insertedCount)]
  ELSE [f EXCEPT !.pc = "insert", !.idx = i, !.inserted = insertedCount,
                 !.log = logSoFar]

\* insertFeatures resumed at position i with the count so far: skips are
\* logged, then either conn.run is issued (pc "insert") or the loop ends
\* and the call returns
continueInsert(f, i, insertedCount, logSoFar) ==
  LET j == firstToWrite(f.features, i)
      skipped == [k \in 1..(j - i) |-> "skipped"]
  IN IF j > Len(f.features)
     THEN [f EXCEPT !.pc = "returned", !.idx = j, !.inserted = insertedCount,
                    !.log = logSoFar \o skipped,
                    !.result = returnValue(f, insertedCount)]
     ELSE [f EXCEPT !.pc = "insert", !.idx = j, !.inserted = insertedCount,
                    !.log = logSoFar \o skipped]

insertFeatures(f, features) ==
  continueInsert([f EXCEPT !.features = features], 1, 0, <<>>)

\* ------------------------------------------------------ runOverpass
\* the throttle measures against half the interval
throttleWait_halfInterval(t, last) ==
  LET elapsed == t - last
  IN IF 2 * elapsed < MIN_REQUEST_INTERVAL_MS
     THEN (MIN_REQUEST_INTERVAL_MS \div 2) - elapsed ELSE 0

\* throttle(): the wait before lastRequestTime is stamped, 0 for none
throttleWait(t, last) ==
  LET elapsed == t - last
  IN IF elapsed < MIN_REQUEST_INTERVAL_MS THEN MIN_REQUEST_INTERVAL_MS - elapsed ELSE 0

\* fetch(urls[attempt % urls.length], ...) of the loop body
dispatch(f, k, t) ==
  [f EXCEPT !.pc = "fetch", !.attempt = k, !.sentAt = t, !.received = None,
            !.sent = Append(@, attemptUrl(Urls, k))]

noteDispatch(log, t, k) ==
  LET d == [t |-> t, attempt |-> k]
  IN IF Len(log) = 2 THEN <<log[2], d>> ELSE Append(log, d)

\* What the try block of one attempt does with the outcome of fetch:
\* "return" the parsed reply, or "throw" inside the try block
tryBlock(o) ==
  IF o.kind = "network" THEN <<"throw", [kind |-> "network", status |-> 0]>>
  ELSE IF ResponseOk(o.status) THEN
         IF IsSome(o.json) THEN <<"return", Val(o.json)>>
         ELSE <<"throw", [kind |-> "parse", status |-> o.status]>>
  ELSE IF o.status \notin transientStatuses
       THEN <<"throw", [kind |-> "http", status |-> o.status]>>
       ELSE <<"recorded", [kind |-> "http", status |-> o.status]>>

\* One attempt with its catch clause: the clause encloses the whole try
\* block, so whatever is thrown there is recorded as lastError and the
\* loop goes on; nothing leaves the loop but the return.
attemptResult(o) ==
  LET r == tryBlock(o)
  IN IF r[1] = "return" THEN r ELSE <<"recorded", r[2]>>

\* the first failure of the call is kept (no assignment on later attempts)
recordError_keepsFirst(f, err) ==
  IF IsSome(f.lastError) THEN f.lastError ELSE Some(err)

\* lastError = err, on every failed attempt
recordError(f, err) == Some(err)

\* ------------------------------------------------------------- actions
\* osmFetchTool up to its first suspension: the query is built (or the
\* call raises), runOverpass starts and throttle() either sleeps or
\* stamps lastRequestTime and the first request goes out.
BeginFetch(p, input, limit) ==
  /\ frame[p].pc = "idle"
  /\ started < limit
  /\ started' = started + 1
  /\ LET q == queryOf(input)
         f == [frame[p] EXCEPT !.caller = "osmFetchTool", !.input = Some(input)]
         wait == throttleWait(now, lastRequestTime)
     IN IF q[1] = "error"
        THEN /\ frame' = [frame EXCEPT ![p] =
                            [f EXCEPT !.pc = "raised", !.result = <<"raise", q[2]>>]]
             /\ UNCHANGED <<lastRequestTime, dispatches>>
        ELSE IF wait > 0
        THEN /\ frame' = [frame EXCEPT ![p] =
                            [f EXCEPT !.pc = "throttle", !.query = q,
                                      !.wakeAt = now + wait]]
             /\ UNCHANGED <<lastRequestTime, dispatches>>
        ELSE /\ lastRequestTime' = now
             /\ frame' = [frame EXCEPT ![p] = dispatch([f EXCEPT !.query = q], 0, now)]
             /\ dispatches' = noteDispatch(dispatches, now, 0)
  /\ UNCHANGED <<now, env, table>>

\* the throttle timer fires: lastRequestTime = Date.now(), first request
ThrottleWake(p) ==
  /\ frame[p].pc = "throttle"
  /\ now >= frame[p].wakeAt
  /\ lastRequestTime' = now
  /\ frame' = [frame EXCEPT ![p] = dispatch(@, 0, now)]
  /\ dispatches' = noteDispatch(dispatches, now, 0)
  /\ UNCHANGED <<now, env, table, started>>

\* fetch settles with outcome o and the body is read: the call returns
\* the reply to osmFetchTool (which normalizes and starts insertFeatures)
\* or records the failure and starts the backoff timer
Respond(p, o) ==
  /\ frame[p].pc = "fetch"
  /\ LET r == attemptResult(o)
     IN IF r[1] = "return"
        THEN frame' = [frame EXCEPT ![p] =
                         insertFeatures([@ EXCEPT !.response = Some(r[2]), !.sentAt = 0,
                                                  !.received = Some(o)],
                                        normalizeElements(r[2]))]
        ELSE frame' = [frame EXCEPT ![p] =
                         [@ EXCEPT !.pc = "backoff", !.lastError = recordError(frame[p], r[2]),
                                   !.sentAt = 0,
                                   !.received = Some(o),
                                   !.wakeAt = now + backoffMs(frame[p].attempt)]]
  /\ UNCHANGED <<now, lastRequestTime, env, table, started, dispatches>>

ExhaustedError == "Overpass failed after retries. Last error: "

\* the backoff timer fires: next attempt, or the loop is over and the
\* call raises with the last recorded error
BackoffWake(p) ==
  /\ frame[p].pc = "backoff"
  /\ now >= frame[p].wakeAt
  /\ IF frame[p].attempt + 1 < maxAttempts(Urls)
     THEN /\ frame' = [frame EXCEPT ![p] = dispatch(@, @.attempt + 1, now)]
          /\ dispatches' = noteDispatch(dispatches, now, frame[p].attempt + 1)
     ELSE /\ frame' = [frame EXCEPT ![p] =
                         [@ EXCEPT !.pc = "raised", !.attempt = @ + 1,
                                   !.result = <<"raise", ExhaustedError,
                                                 Val(frame[p].lastError)>>]]
          /\ UNCHANGED dispatches
  /\ UNCHANGED <<now, lastRequestTime, env, table, started>>

\* insertFeatures called on a batch
BeginInsert(p, batch) ==
  /\ frame[p].pc = "idle"
  /\ started < MaxStarts
  /\ started' = started + 1
  /\ frame' = [frame EXCEPT ![p] =
                 insertFeatures([@ EXCEPT !.caller = "insertFeatures"], batch)]
  /\ UNCHANGED <<now, lastRequestTime, env, table, dispatches>>

\* the callback of conn.run for the feature at idx: the engine wrote the
\* row, or reports an error (a statement it rejects, or a failure of the
\* storage itself when accept is FALSE); the loop goes on either way
StorageCallback(p, accept) ==
  /\ frame[p].pc = "insert"
  /\ LET f == frame[p]
         row == statementRow(f.features[f.idx])
         written == accept /\ IsSome(row)
     IN /\ table' = IF written THEN insertOrReplace(table, Val(row))
                  ELSE failedStatement(table, f.features[f.idx])
        /\ frame' = [frame EXCEPT ![p] =
                       continueInsert(f, f.idx + 1,
                                      IF written THEN f.inserted + 1 ELSE f.inserted,
                                      Append(f.log, IF written THEN "inserted" ELSE "error"))]
  /\ UNCHANGED <<now, lastRequestTime, env, started, dispatches>>

\* the caller has taken the result or the error; the frame is gone
Finish(p) ==
  /\ frame[p].pc \in {"returned", "raised"}
  /\ frame' = [frame EXCEPT ![p] = IdleFrame]
  /\ UNCHANGED <<now, lastRequestTime, env, table, started, dispatches>>

Waiting(f) == f.pc \in {"throttle", "backoff", "fetch"}

\* The clock advances by one step. Time is followed while a call waits
\* for a timer or a reply; a timer fires at the first step at or after
\* its due time, and a reply takes at most MaxLatencyTicks steps.
Tick(step, maxTicks) ==
  /\ now < Epoch + maxTicks * step
  /\ \E p \in Calls : Waiting(frame[p])
  /\ \A p \in Calls :
       /\ frame[p].pc \in {"throttle", "backoff"} => now < frame[p].wakeAt
       /\ frame[p].pc = "fetch" => now < frame[p].sentAt + MaxLatencyTicks * step
  /\ now' = now + step
  /\ UNCHANGED <<lastRequestTime, env, table, started, dispatches, frame>>

\* ------------------------------------------------------------- inputs
SeqsUpTo(S, n) == UNION {[1..k -> S] : k \in 0..n}

TagFilterU ==
  { [key |-> "amenity", value |-> None, regex |-> None],
    [key |-> "name", value |-> Some("x"), regex |-> Some(TRUE)],
    [key |-> "name", value |-> Some("x"), regex |-> Some(FALSE)] }

\* requests of the tool: every combination of the optional fields
FullInputs ==
  [overpass_ql : {None, Some(""), Some("raw")},
   tags : {None} \cup {Some(t) : t \in SeqsUpTo(TagFilterU, MaxTags)},
   center : {None, Some([lat |-> 1, lon |-> 2])},
   radius_m : {None, Some(0), Some(100)},
   bbox : {None, Some([south |-> 0, west |-> 0, north |-> 1, east |-> 1])},
   elements : {None, Some(<<"node", "way">>)},
   output : {None, Some("geom")}]

\* every request whose tag filters are distinct, the two presentation
\* options given together or not at all
BuildInputs ==
  {i \in FullInputs :
     /\ IsSome(i.elements) = IsSome(i.output)
     /\ IsSome(i.tags) =>
          \A a, b \in DOMAIN Val(i.tags) :
            Val(i.tags)[a] = Val(i.tags)[b] => a = b}

\* a raw query, a one-filter request and a request with neither
SmallInputs ==
  {i \in FullInputs :
     /\ i.center = None /\ i.radius_m = None /\ i.bbox = None
     /\ i.elements = None /\ i.output = None
     /\ \/ i.overpass_ql = Some("raw") /\ i.tags = Some(<<>>)
        \/ i.overpass_ql = None /\ i.tags = Some(<<>>)
        \/ i.overpass_ql = None /\ IsSome(i.tags) /\ Len(Val(i.tags)) = 1
           /\ Val(i.tags)[1].key = "amenity"}

Pt(la, lo) == [lat |-> Num(la), lon |-> Num(lo)]

Element(type, id, tags) ==
  [type |-> type, id |-> id, lat |-> None, lon |-> None, center |-> None,
   geometry |-> None, tags |-> tags, members |-> None]

\* elements of replies: two versions of node 1, a node without position
\* and a way whose center object holds no numbers
ElemU ==
  { [Element("node", 1, Some(<<"a", "'">>)) EXCEPT !.lat = Some(Num(1)), !.lon = Some(Num(2))],
    [Element("node", 1, Some(<<"b">>)) EXCEPT !.lat = Some(Num(3)), !.lon = Some(Num(4))],
    Element("node", 2, None),
    [Element("way", 1, None) EXCEPT !.center = Some([lat |-> NotNumber, lon |-> NotNumber])] }

Replies == SeqsUpTo(ElemU, MaxElems)

Feature(type, id, tags, wkt) ==
  [osm_type |-> type, osm_id |-> id, tags_json |-> tags, geom_wkt |-> wkt]

\* features of batches: two versions of node 1, node 1 with a blank
\* geometry text, a way whose text is no geometry
FeatU ==
  { Feature("node", 1, <<"{", "a", "'", "}">>, PointWkt(Num(2), Num(1))),
    Feature("node", 1, <<"{", "b", "}">>, PointWkt(Num(4), Num(3))),
    Feature("node", 1, <<"{", "}">>, Wkt(" ", <<>>)),
    Feature("way", 1, <<"{", "}">>, PointWkt(NotNumber, NotNumber)) }

Batches == SeqsUpTo(FeatU, MaxBatch)

Failure(kind, status) == [kind |-> kind, status |-> status, json |-> None]

\* outcomes of a request: no reply, a success without and with a JSON
\* body, transient and permanent statuses
ClientOutcomes ==
  { Failure("network", 0), Failure("http", 200),
    [kind |-> "http", status |-> 200, json |-> Some(<<>>)],
    [kind |-> "http", status |-> 201, json |-> Some(<<>>)],
    Failure("http", 400), Failure("http", 503) }

\* the service answers every request with a reply without elements
HealthyOutcomes == {[kind |-> "http", status |-> 200, json |-> Some(<<>>)]}

PipelineOutcomes ==
  {[kind |-> "http", status |-> 200, json |-> Some(r)] : r \in Replies}
  \cup {Failure("http", 400), Failure("http", 503)}

\* ------------------------------------------------------ specifications
\* the slot of the calls made one after the other
OneCall == {1}

NoOverride == [URLS |-> None, URL |-> None]

\* process start: any of the environments
Init == InitWith(EnvChoices)

\* process start without endpoint override
DataInit == InitWith({NoOverride})

\* the whole pipeline, one call after the other, clock in steps of 2000 ms
Next ==
  \/ \E p \in OneCall : \E i \in SmallInputs : BeginFetch(p, i, MaxStarts)
  \/ \E p \in OneCall : ThrottleWake(p)
  \/ \E p \in OneCall : \E o \in PipelineOutcomes : Respond(p, o)
  \/ \E p \in OneCall : BackoffWake(p)
  \/ \E p \in OneCall : \E accept \in BOOLEAN : StorageCallback(p, accept)
  \/ \E p \in OneCall : Finish(p)
  \/ Tick(CoarseTickMs, MaxCoarseTicks)

Spec == DataInit /\ [][Next]_vars

\* the client, one call after the other, clock in steps of 500 ms
SeqNext ==
  \/ \E p \in OneCall : \E i \in SmallInputs : BeginFetch(p, i, MaxStarts)
  \/ \E p \in OneCall : ThrottleWake(p)
  \/ \E p \in OneCall : \E o \in ClientOutcomes : Respond(p, o)
  \/ \E p \in OneCall : BackoffWake(p)
  \/ \E p \in OneCall : Finish(p)
  \/ Tick(TickMs, MaxTicks)

SeqSpec == Init /\ [][SeqNext]_vars

\* the client, calls in flight together, a service that answers every
\* request (no retry is made), clock in steps of 500 ms
ConcNext ==
  \/ \E p \in Calls : \E i \in SmallInputs : BeginFetch(p, i, MaxConcStarts)
  \/ \E p \in Calls : ThrottleWake(p)
  \/ \E p \in Calls : \E o \in HealthyOutcomes : Respond(p, o)
  \/ \E p \in Calls : Finish(p)
  \/ Tick(TickMs, MaxConcTicks)

ConcSpec == Init /\ [][ConcNext]_vars

\* the cache: insertFeatures called on batches, calls in flight together
CacheNext ==
  \/ \E p \in Calls : \E b \in Batches : BeginInsert(p, b)
  \/ \E p \in Calls : \E accept \in BOOLEAN : StorageCallback(p, accept)
  \/ \E p \in Calls : Finish(p)

CacheSpec == DataInit /\ [][CacheNext]_vars

\* the requests of the tool: every input, a service that answers
BuildNext ==
  \/ \E p \in OneCall : \E i \in BuildInputs : BeginFetch(p, i, MaxBuildStarts)
  \/ \E p \in OneCall : ThrottleWake(p)
  \/ \E p \in OneCall : \E o \in HealthyOutcomes : Respond(p, o)
  \/ \E p \in OneCall : Finish(p)
  \/ Tick(CoarseTickMs, MaxCoarseTicks)

BuildSpec == DataInit /\ [][BuildNext]_vars

\* ------------------------------------------------------------- claims
\* the reply of the last attempt of a call, once runOverpass has seen it
Got(f) == Val(f.received)

HasReply(f) == IsSome(f.received)

PermanentStatus(st) ==
  ~(st >= 200 /\ st <= 299) /\ st \notin {408, 425, 429, 500, 502, 503, 504, 520}

\* C1: a call whose attempt received a non-2xx status outside the
\* transient set has raised at once: it is in no backoff wait and has
\* issued no request after that attempt.
C1_PermanentFailureRaisesAtOnce ==
  \A p \in Calls :
    (HasReply(frame[p]) /\ Got(frame[p]).kind = "http"
       /\ PermanentStatus(Got(frame[p]).status))
    => /\ frame[p].pc = "raised"
       /\ Len(frame[p].sent) = frame[p].attempt + 1

\* C2: with calls in flight together (and no retry), the two most recent
\* requests to the service were dispatched at least 2000 ms apart.
C2_ConcurrentRequestsSpaced ==
  Len(dispatches) = 2 => dispatches[2].t - dispatches[1].t >= 2000

\* C3: with calls made one after the other, no request (first attempt or
\* retry) is dispatched less than 2000 ms after the request before it.
C3_BackToBackRequestsSpaced ==
  \A i \in 1..Len(dispatches) : \A j \in 1..Len(dispatches) :
    i < j => dispatches[i].t + 2000 <= dispatches[j].t

\* runOverpass has returned its reply to osmFetchTool
Returned(f) == f.pc \in {"insert", "returned"} /\ f.caller = "osmFetchTool"

Exhausted(f) == f.pc = "raised" /\ f.result[1] = "raise" /\ f.result[2] = ExhaustedError

\* C5: a call never issues more than max(2, n) requests, its i-th request
\* (0-based) goes to endpoints[i mod n], and a call that raises because
\* every attempt failed has issued exactly max(2, n) requests.
C5_AttemptBudgetRoundRobin ==
  \A p \in Calls :
    LET n == Len(Urls)
        budget == IF n > 2 THEN n ELSE 2
        sent == frame[p].sent
    IN /\ n >= 1
       /\ Len(sent) <= budget
       /\ \A i \in 0..(Len(sent) - 1) : sent[i + 1] = Urls[(i % n) + 1]
       /\ Exhausted(frame[p]) => Len(sent) = budget
       /\ frame[p].pc \in {"fetch", "backoff"} => Len(sent) = frame[p].attempt + 1

\* C5 witness: five endpoints, five failed attempts, one per endpoint
C5_Witness ==
  \E p \in Calls :
    /\ Exhausted(frame[p])
    /\ Len(Urls) = 5
    /\ frame[p].sent = Urls

\* C6: the cache holds at most one row per (kind, id).
C6_OneRowPerKey ==
  \A r1 \in table : \A r2 \in table :
    (r1.osm_type = r2.osm_type /\ r1.osm_id = r2.osm_id) => r1 = r2

\* C6 witness: both calls in flight have written node 1, one row is kept
C6_Witness ==
  /\ \A p \in Calls : frame[p].pc = "returned" /\ frame[p].inserted = 2
                       /\ \A i \in 1..2 : frame[p].features[i].osm_id = 1
  /\ frame[1].features # frame[2].features
  /\ Cardinality(table) = 1

\* the rows of a table under key (kind, id), and under the other keys
RowsOf(rows, kind, id) == {r \in rows : r.osm_type = kind /\ r.osm_id = id}
RowsNotOf(rows, kind, id) == {r \in rows : ~(r.osm_type = kind /\ r.osm_id = id)}

\* a step in which the write of call p for its current feature succeeds
WriteSucceeds(p) ==
  frame[p].pc = "insert" /\ frame'[p].inserted = frame[p].inserted + 1

\* C7: every successful upsert leaves exactly one row under its key,
\* holding the tags and the geometry of the feature just written, and
\* leaves the rows of the other keys as they were; a step without a
\* successful upsert changes no row. (So each row holds the values of
\* the most recent successful upsert of its key.)
C7_LastWriteWins ==
  [][ /\ \A p \in Calls :
           WriteSucceeds(p) =>
             LET feat == frame[p].features[frame[p].idx]
             IN /\ RowsOf(table', feat.osm_type, feat.osm_id) =
                     {[osm_type |-> feat.osm_type, osm_id |-> feat.osm_id,
                       tags_json |-> feat.tags_json, geom_wkt |-> feat.geom_wkt,
                       geom |-> <<"GEOMETRY", feat.geom_wkt>>]}
                /\ RowsNotOf(table', feat.osm_type, feat.osm_id) =
                     RowsNotOf(table, feat.osm_type, feat.osm_id)
      /\ (\A p \in Calls : ~WriteSucceeds(p)) => table' = table
    ]_vars

\* C7 witness: node 1 written twice by one call, the second write (tags
\* with a quote) is the row
C7_Witness ==
  \E p \in Calls :
    /\ frame[p].pc = "returned" /\ frame[p].log = <<"inserted", "inserted">>
    /\ frame[p].features[1].tags_json = <<"{", "b", "}">>
    /\ frame[p].features[2].tags_json = <<"{", "a", "'", "}">>
    /\ \E r \in table : r.osm_id = 1 /\ r.tags_json = <<"{", "a", "'", "}">>
                        /\ r.geom_wkt = frame[p].features[2].geom_wkt

BlankText(feature) == feature.geom_wkt.shape = "" \/ feature.geom_wkt.shape = " "

CountOf(log, what) == Cardinality({i \in 1..Len(log) : log[i] = what})

\* C8: insertFeatures never raises; while it runs every feature before
\* the current one has been dealt with; when it has returned every
\* feature of the batch was skipped (blank text) or given to the storage,
\* and the count returned is the number of successful writes.
C8_BatchIndependence ==
  \A p \in Calls :
    LET f == frame[p]
    IN f.caller = "insertFeatures" =>
         /\ f.pc # "raised"
         /\ f.pc = "insert" => Len(f.log) = f.idx - 1 /\ f.idx <= Len(f.features)
         /\ f.pc = "returned" =>
              /\ Len(f.log) = Len(f.features)
              /\ \A i \in 1..Len(f.features) :
                   IF BlankText(f.features[i]) THEN f.log[i] = "skipped"
                   ELSE f.log[i] \in {"inserted", "error"}
              /\ f.result = <<"return", CountOf(f.log, "inserted")>>

\* C8 witness: a skipped feature and a rejected one, each followed by a
\* feature that is written
C8_Witness ==
  \E p \in Calls : \E q \in Calls :
    /\ frame[p].pc = "returned" /\ frame[p].log = <<"skipped", "inserted">>
    /\ frame[q].pc = "returned" /\ frame[q].log = <<"error", "inserted">>
    /\ frame[p].result = <<"return", 1>>

\* an element from which no geometry can be derived
NoGeometry(el) ==
  \/ el.type = "node" /\ (el.lat = <<>> \/ el.lon = <<>>)
  \/ el.type = "way" /\ (el.geometry = <<>> \/ el.geometry = <<<<>>>>) /\ el.center = <<>>
  \/ el.type = "relation" /\ el.center = <<>>
       /\ (el.members = <<>>
           \/ \A i \in 1..Len(el.members[1]) :
                el.members[1][i].geometry \in {<<>>, <<<<>>>>})
  \/ el.type \notin {"node", "way", "relation"}

\* C9: a call of osmFetchTool that has returned reports fetched = the
\* elements of the reply, normalized = fetched minus the elements without
\* geometry, inserted = normalized minus the features skipped or rejected.
C9_CountTriple ==
  \A p \in Calls :
    LET f == frame[p]
    IN (f.pc = "returned" /\ f.caller = "osmFetchTool") =>
         LET r == f.result[2]
             els == Got(f).json[1]
         IN /\ r.fetched = Len(els)
            /\ r.normalized = r.fetched - Cardinality({i \in 1..Len(els) : NoGeometry(els[i])})
            /\ Len(f.log) = r.normalized
            /\ r.inserted = r.normalized - Cardinality({i \in 1..Len(f.log) : f.log[i] # "inserted"})

\* C9 witness: two elements, one without geometry and one whose text is
\* no geometry: fetched 2, normalized 1, inserted 0; and a full success
C9_Witness ==
  \E p \in OneCall :
    /\ frame[p].pc = "returned" /\ frame[p].caller = "osmFetchTool"
    /\ frame[p].result[2].fetched = 2
    /\ frame[p].result[2].normalized = 1
    /\ frame[p].result[2].inserted = 0
    /\ frame[p].log = <<"error">>
    /\ table # {}

RaisedMissingFilters(f) ==
  f.pc = "raised" /\ f.result = <<"raise", "Either 'overpass_ql' or 'tags' must be provided">>

\* C10: a request without raw query raises the missing-filters error iff
\* its tag-filter list is empty; a request with at least one tag filter
\* never raises it and has a query; the error comes before any request.
C10_BuildErrorPrecondition ==
  \A p \in Calls :
    LET f == frame[p]
    IN f.caller = "osmFetchTool" =>
         LET i == f.input[1]
             noFilters == i.tags = <<>> \/ i.tags = <<<<>>>>
         IN /\ i.overpass_ql = <<>> => (RaisedMissingFilters(f) <=> noFilters)
            /\ ~noFilters => (~RaisedMissingFilters(f) /\ f.query # <<>>)
            /\ (~noFilters /\ i.overpass_ql \in {<<>>, <<"">>})
                 => (f.query[1] = "built" /\ Len(f.query[2].clauses[1].tags) = Len(i.tags[1]))
            /\ RaisedMissingFilters(f) =>
                 (f.sent = <<>> /\ f.attempt = 0 /\ f.received = <<>> /\ f.lastError = <<>>)

\* C10 witness: no raw query, no filter: raised, nothing sent; the clock
\* of the rate limit is untouched
C10_Witness ==
  \E p \in OneCall :
    /\ RaisedMissingFilters(frame[p])
    /\ frame[p].input[1].overpass_ql = <<>> /\ frame[p].input[1].tags = <<<<>>>>
    /\ frame[p].sent = <<>>
    /\ dispatches = <<>> /\ lastRequestTime = 0

TransientFailure(o) ==
  \/ o.kind = "network"
  \/ o.kind = "http" /\ o.status \in {408, 425, 429, 500, 502, 503, 504, 520}

\* C11: a call that raises out of the retry loop after a transient failure
\* (status or network exception) on its final attempt carries, in its
\* error message, the failure of that final attempt.
C11_ExhaustionCarriesLastFailure ==
  \A p \in Calls :
    (Exhausted(frame[p]) /\ TransientFailure(Got(frame[p])))
    => /\ frame[p].result[3].kind = Got(frame[p]).kind
       /\ Got(frame[p]).kind = "http" => frame[p].result[3].status = Got(frame[p]).status
       /\ frame[p].attempt = (IF Len(Urls) > 2 THEN Len(Urls) ELSE 2)

\* C11 witness: every attempt was made, the last one ended in a network
\* exception and the error raised reports it
C11_Witness ==
  \E p \in Calls :
    /\ Exhausted(frame[p])
    /\ Got(frame[p]).kind = "network"
    /\ frame[p].result[3].kind = "network"
    /\ Len(frame[p].sent) = Len(Urls)

\* C12: a call whose attempt received a 2xx response, whatever its body,
\* has finished runOverpass on that attempt: it waits for no backoff and
\* has issued no request after that attempt.
C12_SuccessEndsCall ==
  \A p \in Calls :
    (HasReply(frame[p]) /\ Got(frame[p]).kind = "http"
       /\ Got(frame[p]).status >= 200 /\ Got(frame[p]).status <= 299)
    => /\ frame[p].pc \notin {"backoff", "fetch", "throttle"}
       /\ ~Exhausted(frame[p])
       /\ Len(frame[p].sent) = frame[p].attempt + 1

\* ------------------------------------------- an endpoint that may hang
TimerArmed(f) == f.pc \in {"throttle", "backoff"}

\* The event loop sleeps until the earliest armed timer is due. A pending
\* fetch arms no timer: the request options carry no signal or timeout.
AwaitTimer ==
  /\ \E p \in Calls : TimerArmed(frame[p])
  /\ \A p \in Calls : TimerArmed(frame[p]) => now < frame[p].wakeAt
  /\ now' = CHOOSE t \in {frame[p].wakeAt : p \in {q \in Calls : TimerArmed(frame[q])}} :
              \A p \in Calls : TimerArmed(frame[p]) => t <= frame[p].wakeAt
  /\ UNCHANGED <<lastRequestTime, env, table, started, dispatches, frame>>

\* the client, one call after the other; a reply arrives at any time or
\* never, timers always fire
HangNext ==
  \/ \E p \in OneCall : \E i \in SmallInputs : BeginFetch(p, i, MaxStarts)
  \/ \E p \in OneCall : ThrottleWake(p)
  \/ \E p \in OneCall : \E o \in ClientOutcomes : Respond(p, o)
  \/ \E p \in OneCall : BackoffWake(p)
  \/ \E p \in OneCall : Finish(p)
  \/ AwaitTimer

HangSpec ==
  /\ Init
  /\ [][HangNext]_vars
  /\ WF_vars(AwaitTimer)
  /\ WF_vars(\E p \in OneCall : ThrottleWake(p))
  /\ WF_vars(\E p \in OneCall : BackoffWake(p))

\* C13: every call that has sent a request eventually has its reply or
\* raises, whether or not the endpoint answers.
C13_EveryCallEnds ==
  \A p \in Calls :
    (frame[p].pc = "fetch") ~> (Returned(frame[p]) \/ frame[p].pc = "raised")

\* ------------------------------------------------- batches of two keys
\* features of batches: two versions of node 1, and node 2
OrderFeatU ==
  { Feature("node", 1, <<"{", "a", "'", "}">>, PointWkt(Num(2), Num(1))),
    Feature("node", 1, <<"{", "b", "}">>, PointWkt(Num(4), Num(3))),
    Feature("node", 2, <<"{", "}">>, PointWkt(Num(6), Num(5))) }

OrderBatches == SeqsUpTo(OrderFeatU, MaxBatch)

\* insertFeatures called on batches, one call after the other
OrderNext ==
  \/ \E p \in OneCall : \E b \in OrderBatches : BeginInsert(p, b)
  \/ \E p \in OneCall : \E accept \in BOOLEAN : StorageCallback(p, accept)
  \/ \E p \in OneCall : Finish(p)

OrderSpec == DataInit /\ [][OrderNext]_vars

RECURSIVE upsertWritten(_, _, _)
\* the loop of insertFeatures run on a batch from the cache rows, the
\* writes of the features in written succeeding and the others failing
upsertWritten(rows, features, written) ==
  IF features = <<>> THEN rows
  ELSE LET feature == Head(features)
           row == statementRow(feature)
           next == IF ~invalidGeomWkt(feature) /\ IsSome(row) /\ feature \in written
                   THEN insertOrReplace(rows, Val(row)) ELSE rows
       IN upsertWritten(next, Tail(features), written)

\* the orderings of a batch
Perms(batch) ==
  LET n == Len(batch)
      bij == {g \in [1..n -> 1..n] : \A i, j \in 1..n : g[i] = g[j] => i = j}
  IN {[i \in 1..n |-> batch[g[i]]] : g \in bij}

\* the features of the returned call whose write succeeded
Written(f) == {f.features[i] : i \in {j \in 1..Len(f.log) : f.log[j] = "inserted"}}

\* the first call, on the empty cache, has returned and equal features of
\* its batch fared alike
FirstBatchDone(f) ==
  /\ f.pc = "returned" /\ f.caller = "insertFeatures" /\ started = 1
  /\ Len(f.log) = Len(f.features)
  /\ \A i, j \in 1..Len(f.features) : f.features[i] = f.features[j] => f.log[i] = f.log[j]

DistinctKeys(features) ==
  \A i, j \in 1..Len(features) :
    (features[i].osm_type = features[j].osm_type /\ features[i].osm_id = features[j].osm_id)
    => i = j

\* C14 as stated: the rows a batch leaves in the cache are the rows every
\* ordering of the batch leaves.
C14_BatchOrderIrrelevant ==
  \A p \in Calls :
    FirstBatchDone(frame[p]) =>
      \A perm \in Perms(frame[p].features) :
        upsertWritten({}, perm, Written(frame[p])) = table

\* C14 amended: the rows a batch with pairwise distinct keys leaves in the
\* cache are the rows every ordering of the batch leaves.
C14_DistinctKeysOrderIrrelevant ==
  \A p \in Calls :
    (FirstBatchDone(frame[p]) /\ DistinctKeys(frame[p].features)) =>
      \A perm \in Perms(frame[p].features) :
        upsertWritten({}, perm, Written(frame[p])) = table

\* C14 witness: a batch of node 2 and node 1 was written, both rows are kept
C14_Witness ==
  \E p \in Calls :
    /\ FirstBatchDone(frame[p]) /\ DistinctKeys(frame[p].features)
    /\ frame[p].log = <<"inserted", "inserted">>
    /\ frame[p].features[1].osm_id = 2 /\ frame[p].features[2].osm_id = 1
    /\ Cardinality(table) = 2

\* the row that holds the key, the tags, the geometry text and the native
\* geometry of one feature
RowOfFeature(feat) ==
  [osm_type |-> feat.osm_type, osm_id |-> feat.osm_id, tags_json |-> feat.tags_json,
   geom_wkt |-> feat.geom_wkt, geom |-> <<"GEOMETRY", feat.geom_wkt>>]

\* C15: with calls in flight together on the shared connection, every row
\* of the cache holds the tags, the geometry text and the native geometry
\* of one single feature given to insertFeatures, never a mixture.
C15_RowFromOneFeature ==
  \A r \in table : \E feat \in FeatU : r = RowOfFeature(feat)

\* C15 witness: both calls are between two writes, each has written its
\* own version of node 1, and the row is one of the two versions
C15_Witness ==
  /\ \A p \in Calls : /\ frame[p].pc = "insert" /\ frame[p].idx = 2
                       /\ frame[p].log = <<"inserted">>
                       /\ frame[p].features[1].osm_id = 1
  /\ frame[1].features[1] # frame[2].features[1]
  /\ table \in {{RowOfFeature(frame[1].features[1])}, {RowOfFeature(frame[2].features[1])}}

KeysOf(rows) == {<<r.osm_type, r.osm_id>> : r \in rows}

\* C16: no step of the pipeline (a write, a skipped or rejected feature, a
\* call that raises) removes a key from the cache.
C16_KeysOnlyGrow ==
  [][KeysOf(table) \subseteq KeysOf(table')]_vars

\* C16 witness: a later call has raised while the row an earlier call
\* wrote is in the cache
C16_Witness ==
  /\ started = 2
  /\ \E p \in Calls : frame[p].pc = "raised"
  /\ KeysOf(table) = {<<"node", 1>>}

\* ------------------------------------------------------ the normalizer
\* normalizeElements called on the elements of a reply
BeginNormalize(p, elements) ==
  /\ frame[p].pc = "idle"
  /\ started < MaxStarts
  /\ started' = started + 1
  /\ frame' = [frame EXCEPT ![p] =
                 [@ EXCEPT !.pc = "returned", !.caller = "normalizeElements",
                           !.response = Some(elements),
                           !.features = normalizeElements(elements),
                           !.result = <<"return", normalizeElements(elements)>>]]
  /\ UNCHANGED <<now, lastRequestTime, env, table, dispatches>>

\* vertices: two on one parallel, two on one meridian
VertexU == {Pt(1, 2), Pt(1, 3), Pt(2, 2)}

CenterU == {None, Some(Pt(7, 8))}

\* ways: with every vertex sequence up to MaxVertices or none, with and
\* without a center
WayU ==
  {[Element("way", 1, None) EXCEPT !.geometry = g, !.center = c] :
     g \in {None} \cup {Some(s) : s \in SeqsUpTo(VertexU, MaxVertices)}, c \in CenterU}

Member(geometry) == [type |-> "way", ref |-> 1, role |-> "outer", geometry |-> geometry]

\* members: without geometry, with an empty, a one-vertex and a two-vertex one
MemberU ==
  {Member(None), Member(Some(<<>>)), Member(Some(<<Pt(3, 6)>>)),
   Member(Some(<<Pt(1, 2), Pt(2, 4)>>))}

\* relations: with every member list up to MaxMembers or none, with and
\* without a center
RelationU ==
  {[Element("relation", 1, None) EXCEPT !.members = m, !.center = c] :
     m \in {None} \cup {Some(s) : s \in SeqsUpTo(MemberU, MaxMembers)}, c \in CenterU}

\* normalizeElements called on replies of one way or one relation
NormNext ==
  \/ \E p \in OneCall : \E el \in WayU \cup RelationU : BeginNormalize(p, <<el>>)
  \/ \E p \in OneCall : Finish(p)

NormSpec == DataInit /\ [][NormNext]_vars

\* the call of normalizeElements on one element has returned
Normalized(f) ==
  f.pc = "returned" /\ f.caller = "normalizeElements" /\ Len(Val(f.response)) = 1

ElementOf(f) == Val(f.response)[1]

LonLat(g) == [i \in 1..Len(g) |-> <<g[i].lon, g[i].lat>>]

\* C17: a way with N >= 1 vertices yields one feature whose geometry is a
\* POINT for N = 1, a POLYGON exactly when N >= 4 and the first vertex
\* equals the last, a LINESTRING otherwise; its coordinate pairs are the
\* vertices in the given order, longitude first.
C17_LinePolygonRule ==
  \A p \in Calls :
    (Normalized(frame[p]) /\ ElementOf(frame[p]).type = "way"
       /\ ElementOf(frame[p]).geometry # <<>>
       /\ Len(Val(ElementOf(frame[p]).geometry)) >= 1)
    => LET g == Val(ElementOf(frame[p]).geometry)
           n == Len(g)
           wkt == frame[p].features[1].geom_wkt
       IN /\ Len(frame[p].features) = 1
          /\ wkt.coords = LonLat(g)
          /\ wkt.shape = "POINT" <=> n = 1
          /\ wkt.shape = "POLYGON" <=> (n >= 4 /\ g[1] = g[n])
          /\ wkt.shape = "LINESTRING" <=> (n >= 2 /\ ~(n >= 4 /\ g[1] = g[n]))

\* C17 witness: a closed sequence of four vertices became a polygon that
\* keeps its closing vertex
C17_Witness ==
  \E p \in Calls :
    /\ Normalized(frame[p]) /\ ElementOf(frame[p]).type = "way"
    /\ ElementOf(frame[p]).geometry = Some(<<Pt(1, 2), Pt(1, 3), Pt(2, 2), Pt(1, 2)>>)
    /\ frame[p].features[1].geom_wkt =
         Wkt("POLYGON", <<<<Num(2), Num(1)>>, <<Num(3), Num(1)>>,
                          <<Num(2), Num(2)>>, <<Num(2), Num(1)>>>>)

\* the vertices of the members that carry geometry, in member order
RECURSIVE VerticesOf(_)
VerticesOf(members) ==
  IF members = <<>> THEN <<>>
  ELSE (IF Head(members).geometry = <<>> THEN <<>> ELSE Head(members).geometry[1])
       \o VerticesOf(Tail(members))

\* numerator over denominator, as a number in lowest terms
MeanOf(total, count) ==
  LET d == CHOOSE k \in 1..count : count % k = 0 /\ total % k = 0
             /\ \A j \in 1..count : (count % j = 0 /\ total % j = 0) => j <= k
  IN <<total \div d, count \div d>>

RECURSIVE SumOf(_, _)
SumOf(points, field) ==
  IF points = <<>> THEN 0 ELSE points[1][field][1] + SumOf(Tail(points), field)

\* C18: a relation with a center yields the point of the center whatever
\* its members; without a center it yields the point at the unweighted
\* mean of all vertices of its members; with neither it yields no feature.
C18_RelationRule ==
  \A p \in Calls :
    (Normalized(frame[p]) /\ ElementOf(frame[p]).type = "relation")
    => LET el == ElementOf(frame[p])
           pts == IF el.members = <<>> THEN <<>> ELSE VerticesOf(el.members[1])
       IN IF el.center # <<>>
          THEN /\ Len(frame[p].features) = 1
               /\ frame[p].features[1].geom_wkt =
                    Wkt("POINT", <<<<el.center[1].lon, el.center[1].lat>>>>)
          ELSE IF Len(pts) > 0
          THEN /\ Len(frame[p].features) = 1
               /\ frame[p].features[1].geom_wkt =
                    Wkt("POINT", <<<<MeanOf(SumOf(pts, "lon"), Len(pts)),
                                     MeanOf(SumOf(pts, "lat"), Len(pts))>>>>)
          ELSE frame[p].features = <<>>

\* C18 witness: no center, members of two vertices and of one vertex: the
\* point is the mean of the three vertices, (lat 2, lon 4)
C18_Witness ==
  \E p \in Calls :
    /\ Normalized(frame[p]) /\ ElementOf(frame[p]).type = "relation"
    /\ ElementOf(frame[p]).center = None
    /\ ElementOf(frame[p]).members =
         Some(<<Member(Some(<<Pt(1, 2), Pt(2, 4)>>)), Member(Some(<<Pt(3, 6)>>))>>)
    /\ frame[p].features[1].geom_wkt = Wkt("POINT", <<<<Num(4), Num(2)>>>>)

\* C19: a way that carries a vertex sequence is normalized from it alone:
\* with no vertex it yields no feature, even when it has a center; with
\* vertices its geometry is written from them; the center is the point
\* only of a way without a vertex sequence.
C19_WayPrecedence ==
  \A p \in Calls :
    (Normalized(frame[p]) /\ ElementOf(frame[p]).type = "way")
    => LET el == ElementOf(frame[p])
       IN IF el.geometry # <<>>
          THEN IF Len(el.geometry[1]) = 0
               THEN frame[p].features = <<>>
               ELSE /\ Len(frame[p].features) = 1
                    /\ frame[p].features[1].geom_wkt.coords = LonLat(el.geometry[1])
          ELSE IF el.center # <<>>
          THEN /\ Len(frame[p].features) = 1
               /\ frame[p].features[1].geom_wkt =
                    Wkt("POINT", <<<<el.center[1].lon, el.center[1].lat>>>>)
          ELSE frame[p].features = <<>>

\* C20: a call waits for a backoff only between two attempts: while it
\* waits, an attempt is still to come, and the call that raises out of the
\* loop has waited once less than it has made attempts.
C20_BackoffOnlyBetweenAttempts ==
  \A p \in Calls :
    frame[p].pc = "backoff" =>
      frame[p].attempt + 1 < (IF Len(Urls) > 2 THEN Len(Urls) ELSE 2)

\* C21: a request that supplies a center, a radius and a bbox is built
\* into a query whose every clause is scoped by the around-radius filter.
C21_RadiusBeforeBbox ==
  \A p \in Calls :
    (frame[p].input # <<>> /\ Len(frame[p].query) = 2 /\ frame[p].query[1] = "built"
       /\ frame[p].input[1].center # <<>> /\ frame[p].input[1].radius_m # <<>>
       /\ frame[p].input[1].bbox # <<>>)
    => \A i \in 1..Len(frame[p].query[2].clauses) :
         /\ frame[p].query[2].clauses[i].area # <<>>
         /\ frame[p].query[2].clauses[i].area[1] = "around"

\* ------------------------------------------- the pipeline under failure
\* replies of one version of node 1, a permanent and a transient status
FailOutcomes ==
  {[kind |-> "http", status |-> 200, json |-> Some(r)] :
     r \in {x \in Replies : Len(x) = 1 /\ x[1].type = "node" /\ x[1].id = 1}}
  \cup {Failure("http", 400), Failure("http", 503)}

\* the whole pipeline, one call after the other, long enough for a call
\* to use up its attempts after an earlier call has written
FailNext ==
  \/ \E p \in OneCall : \E i \in SmallInputs : BeginFetch(p, i, MaxStarts)
  \/ \E p \in OneCall : ThrottleWake(p)
  \/ \E p \in OneCall : \E o \in FailOutcomes : Respond(p, o)
  \/ \E p \in OneCall : BackoffWake(p)
  \/ \E p \in OneCall : \E accept \in BOOLEAN : StorageCallback(p, accept)
  \/ \E p \in OneCall : Finish(p)
  \/ Tick(CoarseTickMs, MaxFailTicks)

FailSpec == DataInit /\ [][FailNext]_vars

\* the call of osmFetchTool ends with an error
Raises(f) == f.caller = "osmFetchTool" /\ f.result[1] = "raise"

\* C22: a call of osmFetchTool that raises (runOverpass raised, or the
\* request has neither a raw query nor a tag filter) has performed no
\* storage write and the step in which it raises leaves every cache row
\* as it was; the cache changes only in a step of a call that is writing.
C22_FailedFetchLeavesCache ==
  [][ /\ \A p \in Calls :
           Raises(frame'[p]) =>
             /\ frame'[p].log = <<>> /\ frame'[p].inserted = 0 /\ frame'[p].idx = 0
             /\ table' = table
      /\ table' # table => \E p \in Calls : frame[p].pc = "insert"
    ]_vars

\* C22 witness: after an earlier call cached a row, one call has raised
\* because every attempt failed and the row is still there
C22_Witness ==
  /\ \E p \in Calls : Raises(frame[p]) /\ Exhausted(frame[p])
  /\ table # {}

\* ------------------------------------------- batches, one call at a time
\* insertFeatures called on batches, one call after the other
UpsertNext ==
  \/ \E p \in OneCall : \E b \in Batches : BeginInsert(p, b)
  \/ \E p \in OneCall : \E accept \in BOOLEAN : StorageCallback(p, accept)
  \/ \E p \in OneCall : Finish(p)

UpsertSpec == DataInit /\ [][UpsertNext]_vars

ValidText(feat) ==
  /\ feat.geom_wkt.shape \notin {"", " "}
  /\ \A i \in 1..Len(feat.geom_wkt.coords) :
       feat.geom_wkt.coords[i][1][2] >= 1 /\ feat.geom_wkt.coords[i][2][2] >= 1

\* C23: the row of a key changes only in a step in which the write of a
\* feature of that key succeeds, and it becomes the row of that feature;
\* a step in which a feature is skipped or its write is rejected leaves
\* the row of its key, and every other row, as it was.
C23_FailedUpsertLeavesRow ==
  [][ \A k \in KeysOf(table) \cup KeysOf(table') :
        RowsOf(table', k[1], k[2]) # RowsOf(table, k[1], k[2]) =>
          \E p \in Calls :
            /\ WriteSucceeds(p)
            /\ frame'[p].log[frame[p].idx] = "inserted"
            /\ LET feat == frame[p].features[frame[p].idx]
               IN /\ <<feat.osm_type, feat.osm_id>> = k
                  /\ ValidText(feat)
                  /\ RowsOf(table', k[1], k[2]) = {RowOfFeature(feat)}
    ]_vars

\* C23 witness: an earlier call cached node 1 with tags b; the later call
\* skipped a node 1 feature with blank text and had a write for node 1
\* rejected; the row is still the one first written
C23_Witness ==
  \E p \in Calls :
    /\ started = 2
    /\ frame[p].pc = "returned" /\ frame[p].log = <<"skipped", "error">>
    /\ \A i \in 1..2 : frame[p].features[i].osm_type = "node" /\ frame[p].features[i].osm_id = 1
    /\ table = {RowOfFeature(Feature("node", 1, <<"{", "b", "}">>, PointWkt(Num(4), Num(3))))}

\* ------------------------------------------- the pace of first requests
\* a reply that ends the call and a transient status
PaceOutcomes == HealthyOutcomes \cup {Failure("http", 503)}

\* the client, one call after the other, with retries, clock in steps of
\* 500 ms
PaceNext ==
  \/ \E p \in OneCall : \E i \in SmallInputs : BeginFetch(p, i, MaxStarts)
  \/ \E p \in OneCall : ThrottleWake(p)
  \/ \E p \in OneCall : \E o \in PaceOutcomes : Respond(p, o)
  \/ \E p \in OneCall : BackoffWake(p)
  \/ \E p \in OneCall : Finish(p)
  \/ Tick(TickMs, MaxConcTicks)

PaceSpec == DataInit /\ [][PaceNext]_vars

\* a step in which call p sends the first request of its call
FirstRequest(p) == frame[p].pc \in {"idle", "throttle"} /\ frame'[p].pc = "fetch"

\* C24: with calls made one after the other, lastRequestTime is the time
\* of the latest first request (it is stamped when a call sends its first
\* request and in no other step, retries included), and a call sends its
\* first request at least 2000 ms after the first request of the call
\* before it.
C24_FirstRequestsSpaced ==
  [][ /\ \A p \in Calls :
           FirstRequest(p) =>
             /\ frame'[p].attempt = 0 /\ frame'[p].sentAt = now
             /\ lastRequestTime' = now
             /\ now - lastRequestTime >= 2000
      /\ lastRequestTime' # lastRequestTime => \E p \in Calls : FirstRequest(p)
    ]_vars

\* C24 witness: the earlier call sent its first request at 2000 and a
\* retry at 2500; the later call, begun at 2500, sends its first request
\* at 4000
C24_Witness ==
  \E p \in Calls :
    /\ started = 2 /\ frame[p].pc = "fetch" /\ frame[p].attempt = 0
    /\ now = 4000 /\ lastRequestTime = 4000
    /\ dispatches = <<[t |-> 2500, attempt |-> 1], [t |-> 4000, attempt |-> 0]>>

====
